---- MODULE Spec2Model ----
(***************************************************************************)
(* A model of honey_flask.py (src/baccccc.py): a Flask decoy service whose *)
(* before_request hook records every request in SQLite (falling back to a  *)
(* text logfile), and whose /upload handler stores files in a quarantine   *)
(* directory.                                                              *)
(*                                                                         *)
(* Requests are served by concurrent handler threads (Procs).  Every call  *)
(* that touches shared state (the database, the logfile, the quarantine    *)
(* directory, the clock) is one action; each of them may fail, as the      *)
(* try/except blocks of the source expect.                                 *)
(*                                                                         *)
(* Text is modelled as sequences of one-character strings.  A request body *)
(* is n bytes made of characters of `unit` bytes each (unit 0: bytes that  *)
(* are not valid UTF-8); decoded text is its length in characters and the  *)
(* number of U+FFFD replacement characters in it.  Path handling is that   *)
(* of a POSIX host (os.sep = "/").                                         *)
(***************************************************************************)
EXTENDS Integers, Sequences, FiniteSets, TLC

VARIABLES
    pc,                \* per thread: the place in the request's handling
    req,               \* per thread: the request being served
    args,              \* per thread: the arguments save_event was called with
    ev,                \* per thread: save_event's locals ts, headers_dict, body_text
    conn,              \* per thread: state of the sqlite3 connection of save_event
    db,                \* committed rows of the events table, in id order
    logfile,           \* lines of honeypot_requests.log, in file order
    quarantine,        \* files of the quarantine directory
    upath,             \* per thread: upload's local `path` (name inside the directory)
    fpos,              \* per thread: position of its open logfile handle when it was opened
    resp,              \* per thread: the response sent to the peer
    hout,              \* per thread: outcomes of the handler's own calls (history)
    cout,              \* per thread: how the capture of the request ended (history)
    raised,            \* per thread: an exception left log_request (or save_event called directly)
    primaryAttempts,   \* per thread: sqlite appends started for this request (history)
    fallbackAttempts,  \* per thread: logfile appends started for this request (history)
    clock              \* the wall clock, in seconds

vars == <<pc, req, args, ev, conn, db, logfile, quarantine, upath, fpos, resp,
          hout, cout, raised, primaryAttempts, fallbackAttempts, clock>>

----------------------------------------------------------------------------
(* Bounds *)

\* seconds the clock may advance
MaxClock == 1
\* characters in a submitted filename, where all filenames are tried
MaxNameLen == 3
\* body sizes tried for save_event reach MaxBodyScale * 2000 + 1
MaxBodyScale == 3

\* the handler threads; each serves one request
Procs == {1, 2}

----------------------------------------------------------------------------
(* Configuration, src/baccccc.py:8-14 *)

UPLOAD_MAX_BYTES == 10 * 1024 * 1024
\* app.config['MAX_CONTENT_LENGTH'] left unset: no body is too long
ContentLengthUnset == UPLOAD_MAX_BYTES * 100
MAX_CONTENT_LENGTH == UPLOAD_MAX_BYTES
QUARANTINE_DIR == <<"q", "u", "a", "r", "a", "n", "t", "i", "n", "e">>
\* request.get_data()[:2000]
HOOK_BODY_CAP == 2000
\* body.decode('utf-8', 'replace')[:2000] and str(body)[:2000]
EXCERPT_CAP == 2000

NONE == "<None>"
EmptyMap == [k \in {} |-> ""]
Min(a, b) == IF a < b THEN a ELSE b

----------------------------------------------------------------------------
(* Text helpers *)

Digit == <<"0", "1", "2", "3", "4", "5", "6", "7", "8", "9">>

RECURSIVE IntToStr(_)
\* str(int) of a natural number, as in f"{int(time.time())}"
IntToStr(n) == IF n < 10 THEN <<Digit[n + 1]>>
               ELSE IntToStr(n \div 10) \o <<Digit[(n % 10) + 1]>>

RECURSIVE Flatten(_, _)
\* sep.join(parts)
Flatten(parts, sep) ==
    IF parts = <<>> THEN <<>>
    ELSE IF Len(parts) = 1 THEN parts[1]
    ELSE parts[1] \o sep \o Flatten(Tail(parts), sep)

RECURSIVE SplitWs(_, _, _)
\* str.split(): the maximal runs of non-whitespace characters
SplitWs(s, cur, acc) ==
    IF s = <<>> THEN (IF cur = <<>> THEN acc ELSE Append(acc, cur))
    ELSE IF s[1] = " "
         THEN SplitWs(Tail(s), <<>>, IF cur = <<>> THEN acc ELSE Append(acc, cur))
         ELSE SplitWs(Tail(s), Append(cur, s[1]), acc)

RECURSIVE LStrip(_, _)
LStrip(s, chars) == IF s # <<>> /\ s[1] \in chars THEN LStrip(Tail(s), chars) ELSE s

RECURSIVE RStrip(_, _)
RStrip(s, chars) ==
    IF s # <<>> /\ s[Len(s)] \in chars THEN RStrip(SubSeq(s, 1, Len(s) - 1), chars) ELSE s

\* str.strip(chars)
Strip(s, chars) == RStrip(LStrip(s, chars), chars)

----------------------------------------------------------------------------
(* werkzeug.utils.secure_filename, called at src/baccccc.py:141 *)

\* the characters submitted filenames are drawn from: a letter, the dot, the
\* POSIX separator, the underscore, a blank, a backslash, a non-ASCII letter
NameChars == {"a", ".", "/", "_", " ", "\\", "é"}
\* [A-Za-z0-9_.-], the characters _filename_ascii_strip_re keeps
AsciiSafe == {"a", "e", ".", "_", "-"} \cup {Digit[i] : i \in 1..10}

\* unicodedata.normalize("NFKD", s).encode("ascii", "ignore").decode("ascii"):
\* the accent of a decomposed letter is dropped
NfkdAscii(s) ==
    LET f[i \in 0..Len(s)] ==
            IF i = 0 THEN <<>>
            ELSE f[i - 1] \o (IF s[i] = "é" THEN <<"e">> ELSE <<s[i]>>)
    IN  f[Len(s)]

\* s.replace(os.sep, " ")  (os.path.altsep is None on POSIX)
SepToBlank(s) == [i \in 1..Len(s) |-> IF s[i] = "/" THEN " " ELSE s[i]]

\* _filename_ascii_strip_re.sub("", s)
AsciiStrip(s) == SelectSeq(s, LAMBDA c : c \in AsciiSafe)

\* the submitted name used as it is
RawFilename(filename) == filename

secure_filename(filename) ==
    LET joined == Flatten(SplitWs(SepToBlank(NfkdAscii(filename)), <<>>, <<>>), <<"_">>)
    IN  Strip(AsciiStrip(joined), {".", "_"})

\* request.files.get('file') when the form has no such part
NOFILE == <<"<None>">>

\* bool(x) of a str or None
Truthy(x) == x # NONE /\ x # ""

\* bool(file) of request.files.get('file'): None, or a FileStorage, whose
\* truth value is that of its filename
FileTruthy(f) == f # NOFILE /\ f # <<>>

\* x or default, of a str or None
Or(x, default) == IF Truthy(x) THEN x ELSE default

\* file.filename or 'upload'
NameOr(name, default) == IF name # <<>> THEN name ELSE default

UPLOAD == <<"u", "p", "l", "o", "a", "d">>

----------------------------------------------------------------------------
(* Bodies and their decoding, src/baccccc.py:50-57 and :103 *)

\* bytes of n bytes, made of characters of `unit` bytes (0: invalid bytes)
Bytes(unit, n) == [kind |-> "bytes", unit |-> unit, n |-> n]
\* a str of n characters
Str(n) == [kind |-> "str", unit |-> 1, n |-> n]
\* any other object, with the length of its str(); n = -1: str() raises
Obj(n) == [kind |-> "other", unit |-> 1, n |-> n]

Text(chars, repl) == [chars |-> chars, repl |-> repl]

\* b[:cap] of bytes
SliceBytes(b, cap) == Bytes(b.unit, Min(b.n, cap))

\* b.decode('utf-8', 'replace'): a truncated trailing character and every
\* invalid byte become one U+FFFD each
Decode(b) ==
    IF b.unit = 0 THEN Text(b.n, b.n)
    ELSE LET tail == IF b.n % b.unit = 0 THEN 0 ELSE 1
         IN  Text((b.n \div b.unit) + tail, tail)

\* t[:cap] of a str; the replacement characters of Decode sit at its end
\* unless the whole text is made of them
SliceText(t, cap) ==
    IF t.chars <= cap THEN t
    ELSE Text(cap, IF t.repl = t.chars THEN cap ELSE 0)

\* the decoded body without the [:2000]
BodyTextNoCap(body) ==
    IF body.kind = "bytes" THEN Decode(body)
    ELSE IF body.n < 0 THEN Text(0, 0)
    ELSE Text(body.n, 0)

\* lines 51-57
BodyText(body) ==
    IF body.kind = "bytes" THEN SliceText(Decode(body), EXCERPT_CAP)
    ELSE IF body.n < 0 THEN Text(0, 0)
    ELSE SliceText(Text(body.n, 0), EXCERPT_CAP)

----------------------------------------------------------------------------
(* Headers, src/baccccc.py:39-48 and :64 *)

HEADER_KEYS == <<"User-Agent", "X-Forwarded-For", "Content-Type", "Accept">>

\* headers.get(key, default) of a mapping
Get(h, key, default) == IF key \in DOMAIN h THEN h[key] ELSE default

\* a headers argument: a mapping, or an object whose .get raises (ok = FALSE)
Headers(h) == [ok |-> TRUE, h |-> h]
BadHeaders == [ok |-> FALSE, h |-> EmptyMap]

\* headers_dict with only the keys the input holds
HeadersDictNoDefault(headers) ==
    IF headers.ok
    THEN [k \in {HEADER_KEYS[i] : i \in 1..4} \cap DOMAIN headers.h |-> headers.h[k]]
    ELSE EmptyMap

\* lines 40-48
HeadersDict(headers) ==
    IF headers.ok
    THEN [k \in {HEADER_KEYS[i] : i \in 1..4} |-> Get(headers.h, k, "")]
    ELSE EmptyMap

\* json.dumps(d) of a dict holding some of HEADER_KEYS, inserted in that
\* order: the text {"k1": "v1", ...}, as its list of key/value pairs
JsonDumps(d) ==
    LET idx == SelectSeq(<<1, 2, 3, 4>>, LAMBDA i : HEADER_KEYS[i] \in DOMAIN d)
    IN  [j \in 1..Len(idx) |-> <<HEADER_KEYS[idx[j]], d[HEADER_KEYS[idx[j]]]>>]

\* the keys of the JSON object text
JsonKeys(j) == {j[i][1] : i \in 1..Len(j)}

----------------------------------------------------------------------------
(* Requests *)

Request(method, path, remote_addr, headers, body, file, username, password) ==
    [method |-> method, path |-> path, remote_addr |-> remote_addr,
     headers |-> headers, body |-> body, file |-> file,
     username |-> username, password |-> password]

\* req of a thread that serves no request (idle, or save_event called directly)
NoRequest == Request("", "", NONE, EmptyMap, Bytes(1, 0), NOFILE, NONE, NONE)

Curl == ("User-Agent" :> "curl") @@ ("Cookie" :> "sid=1")
Proxied == ("X-Forwarded-For" :> "203.0.113.9") @@ ("Accept" :> "*/*")
Multipart == ("Content-Type" :> "multipart/form-data")

\* the requests the server is driven with
Catalogue ==
    << Request("GET", "/", "10.0.0.1", Curl, Bytes(1, 0), NOFILE, NONE, NONE),
      Request("GET", "/admin", NONE, Proxied, Bytes(1, 0), NOFILE, NONE, NONE),
      Request("POST", "/admin/login", "10.0.0.1", Curl, Bytes(1, 30), NOFILE, "admin", "x"),
      Request("POST", "/api/v1/data", "10.0.0.2", EmptyMap, Bytes(0, 3000), NOFILE, NONE, NONE),
      Request("POST", "/upload", "10.0.0.1", Multipart, Bytes(1, 300), <<".", "/", "a">>, NONE, NONE),
      Request("POST", "/upload", "10.0.0.2", Multipart, Bytes(1, 40), NOFILE, NONE, NONE),
      Request("POST", "/upload", "10.0.0.2", Multipart, Bytes(3, UPLOAD_MAX_BYTES + 1), <<"a">>, NONE, NONE) >>

Requests == {Catalogue[i] : i \in 1..Len(Catalogue)}

\* the place of a request in the catalogue
Rank(r) == CHOOSE i \in 1..Len(Catalogue) : Catalogue[i] = r

\* werkzeug's limit check: the declared body is longer than MAX_CONTENT_LENGTH
TooLarge(r) == r.body.n > MAX_CONTENT_LENGTH

----------------------------------------------------------------------------
(* Events, src/baccccc.py:33-71 *)

Args(src_ip, xff, method, path, headers, body) ==
    [src_ip |-> src_ip, xff |-> xff, method |-> method, path |-> path,
     headers |-> headers, body |-> body]

NoArgs == Args("", "", "", "", BadHeaders, Str(0))

\* datetime.now(timezone.utc).isoformat() at second `now`
IsoFormat(now) == <<now, "+00:00">>

\* line 38
Timestamp(now) ==
    LET iso == IsoFormat(now) IN <<iso[1], IF iso[2] = "+00:00" THEN "Z" ELSE iso[2]>>

\* save_event's locals after lines 38-57
Event(a, now) ==
    [ts |-> Timestamp(now), headers_dict |-> HeadersDict(a.headers),
     body_text |-> BodyText(a.body)]

NoEvent == [ts |-> <<0, "">>, headers_dict |-> EmptyMap, body_text |-> Text(0, 0)]

\* the seven values bound to the INSERT's placeholders, lines 63-64
InsertParams(a, e) ==
    [ts |-> e.ts, src_ip |-> a.src_ip, xff |-> a.xff, method |-> a.method,
     path |-> a.path, headers |-> JsonDumps(e.headers_dict), body |-> e.body_text]

\* a row of the events table: the parameters, the AUTOINCREMENT id, and
\* (history) the request it records
Row(id, a, e, r) ==
    [id |-> id, rid |-> r] @@ InsertParams(a, e)

\* the line with the address and the forwarded-for value in each other's place
EventLineSwapped(a, e, r) ==
    [kind |-> "event", rid |-> r, ts |-> e.ts, src_ip |-> a.xff, xff |-> a.src_ip,
     method |-> a.method, path |-> a.path, headers |-> JsonDumps(e.headers_dict),
     body |-> e.body_text]

\* the line written at line 71, field by field
EventLine(a, e, r) ==
    [kind |-> "event", rid |-> r, ts |-> e.ts, src_ip |-> a.src_ip, xff |-> a.xff,
     method |-> a.method, path |-> a.path, headers |-> JsonDumps(e.headers_dict),
     body |-> e.body_text]

\* the line written at line 148
NoteLine(now, path, r) ==
    [kind |-> "note", rid |-> r, ts |-> IsoFormat(now), path |-> path]

\* the arguments log_request passes to save_event, lines 97-104
HookArgs(r) ==
    Args(Or(r.remote_addr, "unknown"), Get(r.headers, "X-Forwarded-For", ""),
         r.method, r.path, Headers(r.headers), SliceBytes(r.body, HOOK_BODY_CAP))

----------------------------------------------------------------------------
(* Responses, src/baccccc.py:112-152 *)

Resp(status, body) == [status |-> status, body |-> body]
NoResp == Resp(0, <<>>)
GENERIC_PAGE == <<"<h1>Welcome</h1><p>This server is under maintenance.</p>">>
ADMIN_PAGE == <<"<title>Admin Panel</title>...">>
\* what Flask answers when a handler raises RequestEntityTooLarge
TooLargeResp == Resp(413, <<"Request Entity Too Large">>)
\* what Flask answers when a handler or hook raises any other exception
ErrorResp == Resp(500, <<"Internal Server Error">>)

\* f"{x}" of a str or None
Fmt(x) == IF x = NONE THEN "None" ELSE x

----------------------------------------------------------------------------
(* Initial state: the process has run init_db() and created the quarantine *)
(* directory (lines 154-156); no request has arrived.                      *)

Init ==
    /\ pc = [p \in Procs |-> "idle"]
    /\ req = [p \in Procs |-> NoRequest]
    /\ args = [p \in Procs |-> NoArgs]
    /\ ev = [p \in Procs |-> NoEvent]
    /\ conn = [p \in Procs |-> "none"]
    /\ db = <<>>
    /\ logfile = <<>>
    /\ quarantine = {}
    /\ upath = [p \in Procs |-> <<>>]
    /\ fpos = [p \in Procs |-> 0]
    /\ resp = [p \in Procs |-> NoResp]
    /\ hout = [p \in Procs |-> <<>>]
    /\ cout = [p \in Procs |-> "none"]
    /\ raised = [p \in Procs |-> FALSE]
    /\ primaryAttempts = [p \in Procs |-> 0]
    /\ fallbackAttempts = [p \in Procs |-> 0]
    /\ clock = 0

----------------------------------------------------------------------------
(* Exception handling *)

\* log_request without its try/except
ExceptSitesHookUnguarded == {"primary", "fallback", "save_logger", "hook_logger", "upload"}

\* the try/except blocks of the source that catch Exception: save_event's
\* around the sqlite calls (59/67), around the logfile write (69/72) and
\* around app.logger.error (74/76); log_request's around the whole hook
\* (96/105) and around app.logger.error (107/109); upload's around
\* file.save and the note (144/149)
ExceptSites == {"primary", "fallback", "save_logger", "hook", "hook_logger", "upload"}

\* the thread leaves the capture code.  `propagating`: an exception is on its
\* way out of save_event (or of get_data); `lok`: log_request's
\* app.logger.error returns.  An exception that leaves log_request makes
\* Flask answer 500 without running the handler.
Leave(p, propagating, lok) ==
    LET direct  == req[p] = NoRequest
        escaped == /\ propagating
                   /\ \/ direct
                      \/ "hook" \notin ExceptSites
                      \/ ~lok /\ "hook_logger" \notin ExceptSites
    IN  /\ pc' = [pc EXCEPT ![p] = IF direct \/ escaped THEN "done" ELSE "handler"]
        /\ raised' = [raised EXCEPT ![p] = escaped]
        /\ resp' = [resp EXCEPT ![p] = IF escaped /\ ~direct THEN ErrorResp ELSE @]

\* the connection object is dropped without close() when save_event ends
\* before line 66 completes; its open transaction, if any, is rolled back
Dropped(c) == IF c \in {"open", "pending"} THEN "leaked" ELSE c

----------------------------------------------------------------------------
(* A request arrives and is given to the first free thread *)

\* the request goes to its handler at once, no hook being registered
ArriveNoHook(p, r) ==
    /\ pc[p] = "idle"
    /\ \A q \in Procs : q < p => pc[q] # "idle"
    /\ pc' = [pc EXCEPT ![p] = "handler"]
    /\ req' = [req EXCEPT ![p] = r]
    /\ UNCHANGED <<args, ev, conn, db, logfile, quarantine, upath, fpos, resp, hout, cout,
                   raised, primaryAttempts, fallbackAttempts, clock>>

\* lines 94-95: log_request is registered with before_request, so Flask calls
\* it before it dispatches the request to the handler of its route
Arrive(p, r) ==
    /\ pc[p] = "idle"
    /\ \A q \in Procs : q < p => pc[q] # "idle"
    /\ pc' = [pc EXCEPT ![p] = "hook"]
    /\ req' = [req EXCEPT ![p] = r]
    /\ UNCHANGED <<args, ev, conn, db, logfile, quarantine, upath, fpos, resp, hout, cout,
                   raised, primaryAttempts, fallbackAttempts, clock>>

----------------------------------------------------------------------------
(* log_request, src/baccccc.py:94-110, up to the first sqlite call of      *)
(* save_event (lines 38-57).  get_data() of a body longer than             *)
(* MAX_CONTENT_LENGTH raises RequestEntityTooLarge in the werkzeug         *)
(* releases that apply the limit to the stream, and reads the body in the  *)
(* others (`limited`).                                                     *)

LogRequest(p) ==
    /\ pc[p] = "hook"
    /\ \E limited \in BOOLEAN, lok \in BOOLEAN :
         IF TooLarge(req[p]) /\ limited
         THEN /\ Leave(p, TRUE, lok)
              /\ cout' = [cout EXCEPT ![p] = "skipped"]
              /\ UNCHANGED <<args, ev>>
         ELSE /\ args' = [args EXCEPT ![p] = HookArgs(req[p])]
              /\ ev' = [ev EXCEPT ![p] = Event(HookArgs(req[p]), clock)]
              /\ pc' = [pc EXCEPT ![p] = "insert"]
              /\ UNCHANGED <<raised, resp, cout>>
    /\ UNCHANGED <<req, conn, db, logfile, quarantine, upath, fpos, hout, primaryAttempts,
                   fallbackAttempts, clock>>

\* save_event called by other code than the hook, with arguments of any kind
CallSaveEvent(p, a) ==
    /\ pc[p] = "idle"
    /\ args' = [args EXCEPT ![p] = a]
    /\ ev' = [ev EXCEPT ![p] = Event(a, clock)]
    /\ pc' = [pc EXCEPT ![p] = "insert"]
    /\ UNCHANGED <<req, conn, db, logfile, quarantine, upath, fpos, resp, hout, cout, raised,
                   primaryAttempts, fallbackAttempts, clock>>

----------------------------------------------------------------------------
(* save_event's primary append, src/baccccc.py:59-67 *)

\* a failed sqlite call is tried again before the logfile is used
PrimaryFailedRetry(p, lok) ==
    /\ pc' = [pc EXCEPT ![p] = IF primaryAttempts[p] < 1 THEN "insert" ELSE "fallback"]
    /\ UNCHANGED <<raised, resp>>

\* a sqlite call raised: control goes to the except block of line 67, or,
\* were there none, out of save_event
PrimaryFailed(p, lok) ==
    IF "primary" \in ExceptSites
    THEN /\ pc' = [pc EXCEPT ![p] = "fallback"]
         /\ UNCHANGED <<raised, resp>>
    ELSE Leave(p, TRUE, lok)

\* lines 60-64: sqlite3.connect(DB, timeout=5), then the INSERT, which takes
\* the database's write lock; another connection's uncommitted INSERT holds
\* it, and waiting for it longer than the timeout raises, as any other sqlite
\* error does
Insert(p) ==
    /\ pc[p] = "insert"
    /\ primaryAttempts' = [primaryAttempts EXCEPT ![p] = @ + 1]
    /\ \E out \in {"ok", "connect_failed", "insert_failed"}, lok \in BOOLEAN :
         IF out = "ok"
         THEN /\ \A q \in Procs \ {p} : conn[q] # "pending"
              /\ conn' = [conn EXCEPT ![p] = "pending"]
              /\ pc' = [pc EXCEPT ![p] = "commit"]
              /\ UNCHANGED <<raised, resp>>
         ELSE /\ PrimaryFailed(p, lok)
              /\ conn' = [conn EXCEPT ![p] =
                            IF out = "connect_failed" THEN "none"
                            ELSE IF "primary" \in ExceptSites THEN "open" ELSE "leaked"]
    /\ UNCHANGED <<req, args, ev, db, logfile, quarantine, upath, fpos, hout, cout,
                   fallbackAttempts, clock>>

\* the logfile append placed after the try block, where it runs on success too
ReturnedThenLogs(p, lok) ==
    /\ pc' = [pc EXCEPT ![p] = "fallback"]
    /\ UNCHANGED <<raised, resp>>

\* conn.close() at line 66 returned: the try block ends, the except block of
\* line 67 is skipped and save_event returns
Returned(p, lok) == Leave(p, FALSE, lok)

\* lines 65-66: conn.commit() makes the row durable, with the next
\* AUTOINCREMENT id, and releases the lock; conn.close(); save_event returns
Commit(p) ==
    /\ pc[p] = "commit"
    /\ \E out \in {"ok", "commit_failed", "close_failed"}, lok \in BOOLEAN :
         /\ db' = IF out = "commit_failed" THEN db
                  ELSE Append(db, Row(Len(db) + 1, args[p], ev[p], p))
         /\ IF out = "ok"
            THEN /\ conn' = [conn EXCEPT ![p] = "closed"]
                 /\ cout' = [cout EXCEPT ![p] = "stored"]
                 /\ Returned(p, lok)
            ELSE /\ PrimaryFailed(p, lok)
                 /\ UNCHANGED cout
                 /\ conn' = [conn EXCEPT ![p] =
                               IF "primary" \in ExceptSites
                               THEN (IF out = "commit_failed" THEN "pending" ELSE "open")
                               ELSE "leaked"]
    /\ UNCHANGED <<req, args, ev, logfile, quarantine, upath, fpos, hout, primaryAttempts,
                   fallbackAttempts, clock>>

----------------------------------------------------------------------------
(* save_event's except block, src/baccccc.py:67-77 *)

\* open(LOGFILE, 'a'): the handle is positioned at the end of the file
OpenAppend(lf) == Len(lf)

\* what is left of a line when a write lands on it
Torn(line) == [kind |-> "torn", rid |-> line.rid]

\* a write at the handle's own position, over whatever is there
WriteAtPosition(lf, pos, line) ==
    IF pos >= Len(lf) THEN Append(lf, line)
    ELSE SubSeq(lf, 1, pos) \o <<line, Torn(lf[pos + 1])>> \o SubSeq(lf, pos + 2, Len(lf))

\* f.write(line) and the close of the `with` block: the text layer buffers the
\* one string and the close flushes it in one write() of all its bytes, which
\* a handle opened for append puts at the end of the file as it is then,
\* wherever the handle was positioned
WriteLog(lf, pos, line) == Append(lf, line)

\* save_event ends in its except block.  failed: the logfile append raised;
\* sok: app.logger.error of line 75 returns; lok: that of line 108 returns
\* (the source guards both calls, so the model lets them raise)
FallbackEnds(p, failed, sok, lok) ==
    /\ cout' = [cout EXCEPT ![p] = IF failed THEN "lost" ELSE "logged"]
    /\ Leave(p, (failed /\ "fallback" \notin ExceptSites)
                   \/ (~sok /\ "save_logger" \notin ExceptSites), lok)
    /\ conn' = [conn EXCEPT ![p] = Dropped(@)]

\* line 70: open(LOGFILE, 'a', encoding='utf8')
Fallback(p) ==
    /\ pc[p] = "fallback"
    /\ fallbackAttempts' = [fallbackAttempts EXCEPT ![p] = @ + 1]
    /\ \E ook \in BOOLEAN, sok \in BOOLEAN, lok \in BOOLEAN :
         IF ook
         THEN /\ fpos' = [fpos EXCEPT ![p] = OpenAppend(logfile)]
              /\ pc' = [pc EXCEPT ![p] = "fallback_write"]
              /\ UNCHANGED <<cout, raised, resp, conn>>
         ELSE /\ FallbackEnds(p, TRUE, sok, lok)
              /\ UNCHANGED fpos
    /\ UNCHANGED <<req, args, ev, db, logfile, quarantine, upath, hout, primaryAttempts,
                   clock>>

\* lines 71-77: f.write, the close of the file, app.logger.error
FallbackWrite(p) ==
    /\ pc[p] = "fallback_write"
    /\ \E wok \in BOOLEAN, sok \in BOOLEAN, lok \in BOOLEAN :
         /\ logfile' = IF wok THEN WriteLog(logfile, fpos[p], EventLine(args[p], ev[p], p))
                       ELSE logfile
         /\ FallbackEnds(p, ~wok, sok, lok)
    /\ fpos' = [fpos EXCEPT ![p] = 0]
    /\ UNCHANGED <<req, args, ev, db, quarantine, upath, hout, primaryAttempts,
                   fallbackAttempts, clock>>

----------------------------------------------------------------------------
(* The bait handlers, src/baccccc.py:112-134 *)

\* the handler of thread p returns (or raises, and Flask answers for it)
Respond(p, r) ==
    /\ pc' = [pc EXCEPT ![p] = "done"]
    /\ resp' = [resp EXCEPT ![p] = r]

Routed(p, methods, path) ==
    /\ pc[p] = "handler"
    /\ req[p].path = path
    /\ req[p].method \in methods

\* lines 113-115
index(p) ==
    /\ Routed(p, {"GET"}, "/")
    /\ Respond(p, Resp(200, GENERIC_PAGE))
    /\ UNCHANGED <<req, args, ev, conn, db, logfile, quarantine, upath, fpos, hout, cout,
                   raised, primaryAttempts, fallbackAttempts, clock>>

\* lines 117-119
admin(p) ==
    /\ Routed(p, {"GET"}, "/admin")
    /\ Respond(p, Resp(200, ADMIN_PAGE))
    /\ UNCHANGED <<req, args, ev, conn, db, logfile, quarantine, upath, fpos, hout, cout,
                   raised, primaryAttempts, fallbackAttempts, clock>>

\* a handler that compares the submitted credentials and lets "admin"/"x" in
admin_login_authenticates(p) ==
    /\ Routed(p, {"GET", "POST"}, "/admin/login")
    /\ Respond(p, IF req[p].method = "GET" THEN Resp(200, ADMIN_PAGE)
                  ELSE IF TooLarge(req[p]) THEN TooLargeResp
                  ELSE IF req[p].username = "admin" /\ req[p].password = "x"
                       THEN Resp(200, <<"<p>Welcome ", Fmt(req[p].username), "</p>">>)
                  ELSE Resp(401, <<"<p>Login failed for ", Fmt(req[p].username), "</p>">>))
    /\ UNCHANGED <<req, args, ev, conn, db, logfile, quarantine, upath, fpos, hout, cout,
                   raised, primaryAttempts, fallbackAttempts, clock>>

\* lines 121-129; request.form of a body longer than MAX_CONTENT_LENGTH
\* raises RequestEntityTooLarge
admin_login(p) ==
    /\ Routed(p, {"GET", "POST"}, "/admin/login")
    /\ Respond(p, IF req[p].method = "GET" THEN Resp(200, ADMIN_PAGE)
                  ELSE IF TooLarge(req[p]) THEN TooLargeResp
                  ELSE Resp(401, <<"<p>Login failed for ", Fmt(req[p].username), "</p>">>))
    /\ UNCHANGED <<req, args, ev, conn, db, logfile, quarantine, upath, fpos, hout, cout,
                   raised, primaryAttempts, fallbackAttempts, clock>>

\* lines 131-134
api_data(p) ==
    /\ Routed(p, {"GET", "POST"}, "/api/v1/data")
    /\ Respond(p, Resp(404, <<"{\"error\": \"not_found\"}">>))
    /\ UNCHANGED <<req, args, ev, conn, db, logfile, quarantine, upath, fpos, hout, cout,
                   raised, primaryAttempts, fallbackAttempts, clock>>

----------------------------------------------------------------------------
(* upload, src/baccccc.py:136-152 *)

\* os.path.join(a, b) on POSIX
Join(a, b) == IF b # <<>> /\ b[1] = "/" THEN b ELSE a \o <<"/">> \o b

\* line 141
SanitizedName(filename) == secure_filename(NameOr(filename, UPLOAD))

\* line 143
StoredPath(now, fname) == Join(QUARANTINE_DIR, IntToStr(now) \o <<"_">> \o fname)

\* file.save(path) creates or truncates the file at `path`
Put(files, path, r, complete) ==
    {f \in files : f.path # path} \cup {[path |-> path, rid |-> r, complete |-> complete]}

\* the except block of line 149 without its return: control falls to line 152
UploadFailedSwallowed(p) == Respond(p, Resp(200, <<"OK">>))

\* a call inside the try block of line 144 raised: the except block of line
\* 149 logs and answers "Failed".  (app.logger is Flask's default logger: its
\* handler reports its own errors on stderr and returns.)
UploadFailed(p) ==
    Respond(p, IF "upload" \in ExceptSites THEN Resp(500, <<"Failed">>) ELSE ErrorResp)

\* lines 139-143: request.files of a body longer than MAX_CONTENT_LENGTH raises
\* RequestEntityTooLarge; mk: os.makedirs succeeds
upload(p) ==
    /\ Routed(p, {"POST"}, "/upload")
    /\ \E mk \in BOOLEAN :
         IF TooLarge(req[p])
         THEN /\ Respond(p, TooLargeResp)
              /\ UNCHANGED <<upath, hout>>
         ELSE IF ~FileTruthy(req[p].file)
         THEN /\ Respond(p, Resp(200, <<"OK">>))
              /\ UNCHANGED <<upath, hout>>
         ELSE IF mk
         THEN /\ upath' = [upath EXCEPT ![p] = StoredPath(clock, SanitizedName(req[p].file))]
              /\ hout' = [hout EXCEPT ![p] = <<"makedirs_ok">>]
              /\ pc' = [pc EXCEPT ![p] = "save"]
              /\ UNCHANGED resp
         ELSE /\ Respond(p, ErrorResp)
              /\ hout' = [hout EXCEPT ![p] = <<"makedirs_failed">>]
              /\ UNCHANGED upath
    /\ UNCHANGED <<req, args, ev, conn, db, logfile, quarantine, fpos, raised,
                   primaryAttempts, fallbackAttempts, clock, cout>>

\* line 145: file.save(path); a failed save may leave a partial file
UploadSave(p) ==
    /\ pc[p] = "save"
    /\ \E ok \in BOOLEAN, partial \in BOOLEAN :
         IF ok
         THEN /\ quarantine' = Put(quarantine, upath[p], p, TRUE)
              /\ hout' = [hout EXCEPT ![p] = Append(@, "save_ok")]
              /\ pc' = [pc EXCEPT ![p] = "note"]
              /\ UNCHANGED resp
         ELSE /\ quarantine' = IF partial THEN Put(quarantine, upath[p], p, FALSE)
                               ELSE quarantine
              /\ hout' = [hout EXCEPT ![p] = Append(@, "save_failed")]
              /\ UploadFailed(p)
    /\ UNCHANGED <<req, args, ev, conn, db, logfile, upath, fpos, raised, primaryAttempts,
                   fallbackAttempts, clock, cout>>

\* line 147: open(LOGFILE, 'a', encoding='utf8')
UploadNote(p) ==
    /\ pc[p] = "note"
    /\ \E ook \in BOOLEAN :
         IF ook
         THEN /\ fpos' = [fpos EXCEPT ![p] = OpenAppend(logfile)]
              /\ pc' = [pc EXCEPT ![p] = "note_write"]
              /\ UNCHANGED <<hout, resp>>
         ELSE /\ hout' = [hout EXCEPT ![p] = Append(@, "note_failed")]
              /\ UploadFailed(p)
              /\ UNCHANGED fpos
    /\ UNCHANGED <<req, args, ev, conn, db, logfile, quarantine, upath, raised,
                   primaryAttempts, fallbackAttempts, clock, cout>>

\* lines 148-152: the note line, the close of the file, then "OK"
UploadNoteWrite(p) ==
    /\ pc[p] = "note_write"
    /\ \E ok \in BOOLEAN :
         IF ok
         THEN /\ logfile' = WriteLog(logfile, fpos[p], NoteLine(clock, upath[p], p))
              /\ hout' = [hout EXCEPT ![p] = Append(@, "note_ok")]
              /\ Respond(p, Resp(200, <<"OK">>))
         ELSE /\ hout' = [hout EXCEPT ![p] = Append(@, "note_failed")]
              /\ UploadFailed(p)
              /\ UNCHANGED logfile
    /\ fpos' = [fpos EXCEPT ![p] = 0]
    /\ UNCHANGED <<req, args, ev, conn, db, quarantine, upath, raised,
                   primaryAttempts, fallbackAttempts, clock, cout>>

----------------------------------------------------------------------------
(* Time passes.  The clock is read at lines 38, 143 and 148 only, so the   *)
(* seconds that pass while no thread is about to read it are left to pass  *)
(* when one is.                                                            *)

ReadsClock(p) ==
    \/ pc[p] \in {"hook", "note_write"}
    \/ pc[p] = "handler" /\ req[p].path = "/upload"

Tick ==
    /\ clock < MaxClock
    /\ \E p \in Procs : ReadsClock(p)
    /\ clock' = clock + 1
    /\ UNCHANGED <<pc, req, args, ev, conn, db, logfile, quarantine, upath, fpos, resp, hout,
                   cout, raised, primaryAttempts, fallbackAttempts>>

----------------------------------------------------------------------------
(* The server: requests from Requests, served by the threads of Procs.  The *)
(* threads are interchangeable and a request's arrival changes nothing but  *)
(* the thread's own state, so of two runs that differ only in which thread  *)
(* serves which request one is kept: the one whose threads serve them in    *)
(* catalogue order.                                                        *)

InOrder(p, r) == \A q \in Procs : q < p => Rank(req[q]) <= Rank(r)

Next ==
    \/ \E p \in Procs : \E r \in Requests : Arrive(p, r) /\ InOrder(p, r)
    \/ \E p \in Procs : LogRequest(p)
    \/ \E p \in Procs : Insert(p)
    \/ \E p \in Procs : Commit(p)
    \/ \E p \in Procs : Fallback(p)
    \/ \E p \in Procs : FallbackWrite(p)
    \/ \E p \in Procs : index(p)
    \/ \E p \in Procs : admin(p)
    \/ \E p \in Procs : admin_login(p)
    \/ \E p \in Procs : api_data(p)
    \/ \E p \in Procs : upload(p)
    \/ \E p \in Procs : UploadSave(p)
    \/ \E p \in Procs : UploadNote(p)
    \/ \E p \in Procs : UploadNoteWrite(p)
    \/ Tick

Spec == Init /\ [][Next]_vars

----------------------------------------------------------------------------
(* save_event as a function: one call, with arguments of every kind *)

BodySizes == {0, 1} \cup {k * EXCERPT_CAP + d : k \in 1..MaxBodyScale, d \in {-1, 0, 1}}

Bodies ==
    {Bytes(u, n) : u \in 0..4, n \in BodySizes}
        \cup {Str(n) : n \in BodySizes} \cup {Obj(n) : n \in BodySizes \cup {-1}}

SaveArgs ==
    {Args("10.0.0.1", "203.0.113.9", "GET", "/", h, b) :
        h \in {Headers(Curl), Headers(Proxied), Headers(EmptyMap), BadHeaders}, b \in Bodies}

NextSaveEvent ==
    \/ pc[1] = "idle" /\ \E a \in SaveArgs : CallSaveEvent(1, a)
    \/ Insert(1)
    \/ Commit(1)
    \/ Fallback(1)
    \/ FallbackWrite(1)

SpecSaveEvent == Init /\ [][NextSaveEvent]_vars

----------------------------------------------------------------------------
(* The upload of one file, under every filename of at most MaxNameLen      *)
(* characters of NameChars                                                 *)

Names == UNION {[1..n -> NameChars] : n \in 0..MaxNameLen}

UploadRequest(name) ==
    Request("POST", "/upload", "10.0.0.1", Multipart, Bytes(1, 300), name, NONE, NONE)

NextUploadNames ==
    \/ pc[1] = "idle" /\ \E name \in Names : Arrive(1, UploadRequest(name))
    \/ LogRequest(1)
    \/ Insert(1)
    \/ Commit(1)
    \/ Fallback(1)
    \/ FallbackWrite(1)
    \/ upload(1)
    \/ UploadSave(1)
    \/ UploadNote(1)
    \/ UploadNoteWrite(1)

SpecUploadNames == Init /\ [][NextUploadNames]_vars

----------------------------------------------------------------------------
(* Login attempts: two concurrent POSTs of the login form, under every pair *)
(* of a username and a password                                            *)

\* the submitted form fields (None: the field is absent) and their lengths
\* in the urlencoded body; the last password is longer than the body limit
Usernames == {"admin", NONE}
Passwords == {"x", "hunter2", "AAAA...(11 MiB)"}
FieldBytes ==
    ("admin" :> 5) @@ (NONE :> 0) @@ ("x" :> 1) @@ ("hunter2" :> 7)
        @@ ("AAAA...(11 MiB)" :> 11 * 1024 * 1024)

\* the body "username=<u>&password=<pw>"
FormBody(u, pw) == Bytes(1, 19 + FieldBytes[u] + FieldBytes[pw])

LoginRequest(u, pw) ==
    Request("POST", "/admin/login", "10.0.0.1", Curl, FormBody(u, pw), NOFILE, u, pw)

LoginRequests == {LoginRequest(u, pw) : u \in Usernames, pw \in Passwords}

NextLogin ==
    \/ \E p \in Procs : \E r \in LoginRequests : Arrive(p, r)
    \/ \E p \in Procs : LogRequest(p)
    \/ \E p \in Procs : Insert(p)
    \/ \E p \in Procs : Commit(p)
    \/ \E p \in Procs : Fallback(p)
    \/ \E p \in Procs : FallbackWrite(p)
    \/ \E p \in Procs : admin_login(p)

SpecLogin == Init /\ [][NextLogin]_vars

----------------------------------------------------------------------------
(* What the claims speak of *)

Done(p) == pc[p] = "done"

\* save_event has returned for the request of thread p
AfterCapture(p) == pc[p] \in {"handler", "save", "note", "note_write", "done"}

\* the rows and the logfile's event lines that record the request of thread p
DbRows(p) == {i \in 1..Len(db) : db[i].rid = p}
LogEvents(p) == {i \in 1..Len(logfile) : logfile[i].kind = "event" /\ logfile[i].rid = p}

\* the seven fields of a logfile event line
LineFields(l) ==
    [ts |-> l.ts, src_ip |-> l.src_ip, xff |-> l.xff, method |-> l.method,
     path |-> l.path, headers |-> l.headers, body |-> l.body]

\* the header summaries and body excerpts written for the request of thread p
WrittenHeaders(p) ==
    {db[i].headers : i \in DbRows(p)} \cup {logfile[i].headers : i \in LogEvents(p)}
WrittenBodies(p) ==
    {db[i].body : i \in DbRows(p)} \cup {logfile[i].body : i \in LogEvents(p)}

FourKeys == {"User-Agent", "X-Forwarded-For", "Content-Type", "Accept"}

\* the summary has the four keys, each with the input's value or ""
FourKeySummary(h, input) ==
    /\ Len(h) = 4
    /\ JsonKeys(h) = FourKeys
    /\ \A i \in 1..Len(h) :
         h[i][2] = IF h[i][1] \in DOMAIN input THEN input[h[i][1]] ELSE ""

\* the characters that separate the components of a path
PathSeps == {"/", "\\"}

QuarantinePrefix == QUARANTINE_DIR \o <<"/">>

\* the part of a path after "quarantine/"
RelName(path) == SubSeq(path, Len(QuarantinePrefix) + 1, Len(path))

\* the path names an entry of the quarantine directory itself
DirectlyInside(path) ==
    /\ Len(path) > Len(QuarantinePrefix)
    /\ SubSeq(path, 1, Len(QuarantinePrefix)) = QuarantinePrefix
    /\ \A i \in 1..Len(RelName(path)) : RelName(path)[i] \notin PathSeps

\* the part of a stored name after "<digits>_"
BaseName(path) ==
    LET name == RelName(path)
        us   == {i \in 1..Len(name) : name[i] = "_"}
    IN  IF us = {} THEN name
        ELSE SubSeq(name, (CHOOSE i \in us : \A j \in us : i <= j) + 1, Len(name))

IsUpload(p) == req[p].path = "/upload" /\ req[p].method = "POST"

----------------------------------------------------------------------------
(* Claims *)

\* C1: whatever fails inside the capture hook (the sqlite append, the logfile
\* append, reading the body), no exception leaves log_request, and the answer
\* to a request is the one its handler gives when the capture succeeded: two
\* served requests that are equal and whose handlers met the same outcomes of
\* their own calls have the same status and body.
C1_CaptureNeverChangesResponse ==
    /\ \A p \in Procs : ~raised[p]
    /\ \A p, q \in Procs :
         Done(p) /\ Done(q) /\ req[p] = req[q] /\ hout[p] = hout[q] => resp[p] = resp[q]

\* the same request served twice, once stored in sqlite and once lost by both
\* sinks, answered alike
C1_Witness ==
    \E p, q \in Procs :
        /\ Done(p) /\ Done(q) /\ req[p] = req[q] /\ hout[p] = hout[q]
        /\ cout[p] = "stored" /\ cout[q] = "lost"
        /\ resp[p] = resp[q] /\ resp[p].status = 200

\* C2 (as claimed): once save_event has finished for a request, the event is
\* in at most one of the two sinks, whichever sqlite call failed.
C2_AtMostOneSink ==
    \A p \in Procs : Cardinality(DbRows(p)) + Cardinality(LogEvents(p)) <= 1

C5_AlwaysFourKeys ==
    \A p \in Procs : \A h \in WrittenHeaders(p) : FourKeySummary(h, args[p].headers.h)

\* C5 (amended): for a headers argument whose lookups succeed the summary has
\* exactly the four keys, each "" when the input lacks it; for one whose
\* lookup raises, the summary written is the empty object.
C5_FourKeysOrEmpty ==
    \A p \in Procs : \A h \in WrittenHeaders(p) :
        IF args[p].headers.ok THEN FourKeySummary(h, args[p].headers.h) ELSE Len(h) = 0

\* a summary written from headers that lack three of the keys and hold another
C5_Witness ==
    \E p \in Procs : \E h \in WrittenHeaders(p) :
        /\ args[p].headers.ok /\ FourKeySummary(h, args[p].headers.h)
        /\ "Cookie" \in DOMAIN args[p].headers.h
        /\ "Accept" \notin DOMAIN args[p].headers.h

\* C6: the body excerpt written to either sink has at most 2000 characters,
\* whatever the body given to save_event.
C6_ExcerptAtMost2000 ==
    \A p \in Procs : \A b \in WrittenBodies(p) : b.chars <= 2000

\* an excerpt of 2000 characters written from a body of more than 2000 bytes
C6_Witness ==
    \E p \in Procs : \E b \in WrittenBodies(p) :
        b.chars = 2000 /\ args[p].body.kind = "bytes" /\ args[p].body.n > 2000

\* C7: every file the upload handler writes lies directly inside the
\* quarantine directory: its name there holds no path separator.
C7_NoSeparatorInStoredName ==
    \A f \in quarantine : DirectlyInside(f.path)

\* a file stored for a submitted filename that holds a separator
C7_Witness ==
    \E f \in quarantine :
        /\ f.complete /\ DirectlyInside(f.path)
        /\ \E i \in 1..Len(req[f.rid].file) : req[f.rid].file[i] = "/"

\* C8 (as claimed): a file stored for a filename that is empty or that
\* sanitization strips entirely has the base name "upload".
C8_EmptyNameStoredAsUpload ==
    \A f \in quarantine :
        secure_filename(req[f.rid].file) = <<>> => BaseName(f.path) = UPLOAD

\* C9 (as claimed): an upload answered "OK"/200 has a file written for it, and
\* one whose store failed is answered "Failed"/500.
C9_OkOnlyWithFile ==
    \A p \in Procs :
        Done(p) /\ IsUpload(p) =>
            /\ resp[p] = Resp(200, <<"OK">>) => \E f \in quarantine : f.path = upath[p]
            /\ "save_failed" \in {hout[p][i] : i \in 1..Len(hout[p])} =>
                 resp[p] = Resp(500, <<"Failed">>)

\* C9 (amended): an upload answered "OK"/200 either carried no file part with
\* a non-empty filename, and nothing was stored, or file.save and the note
\* both succeeded and a file is at its stored path; one whose file.save or
\* note append failed is answered "Failed"/500, and one whose os.makedirs
\* failed, outside the try block, gets Flask's own 500 answer.
C9_OkOnlyWithFileOrNoFile ==
    \A p \in Procs :
        LET outs == {hout[p][i] : i \in 1..Len(hout[p])}
        IN  Done(p) /\ IsUpload(p) =>
              /\ resp[p] = Resp(200, <<"OK">>) =>
                   \/ ~FileTruthy(req[p].file) /\ upath[p] = <<>>
                   \/ /\ {"save_ok", "note_ok"} \subseteq outs
                      /\ \E f \in quarantine : f.path = upath[p]
              /\ outs \cap {"save_failed", "note_failed"} # {} =>
                   resp[p] = Resp(500, <<"Failed">>)
              /\ "makedirs_failed" \in outs => resp[p] = ErrorResp

\* an upload answered "OK" with its file in quarantine, and another answered
\* "Failed" after its file.save failed
C9_Witness ==
    \E p, q \in Procs :
        /\ Done(p) /\ IsUpload(p) /\ resp[p] = Resp(200, <<"OK">>)
        /\ \E f \in quarantine : f.path = upath[p] /\ f.rid = p /\ f.complete
        /\ Done(q) /\ IsUpload(q) /\ resp[q] = Resp(500, <<"Failed">>)
        /\ hout[q] = <<"makedirs_ok", "save_failed">>

\* C10: an upload whose body is longer than 10 MiB never reaches file.save: no
\* file of it, whole or partial, is in the quarantine directory, and it is
\* answered 413.
C10_OversizeNeverStored ==
    \A p \in Procs :
        IsUpload(p) /\ req[p].body.n > 10 * 1024 * 1024 =>
            /\ pc[p] \notin {"save", "note", "note_write"}
            /\ upath[p] = <<>>
            /\ \A f \in quarantine : f.rid # p
            /\ Done(p) => resp[p].status = 413

\* an oversized upload with a file part, rejected, while the other thread's
\* upload was stored
C10_Witness ==
    \E p, q \in Procs :
        /\ Done(p) /\ IsUpload(p) /\ req[p].body.n > 10 * 1024 * 1024
        /\ FileTruthy(req[p].file) /\ resp[p].status = 413
        /\ \E f \in quarantine : f.rid = q /\ f.complete

----------------------------------------------------------------------------
(* Claims about logging failures and the upload note *)

\* the outcomes of the handler's calls that do not write the logfile
NonLogOutcomes(p) == SelectSeq(hout[p], LAMBDA o : o \notin {"note_ok", "note_failed"})

\* the logfile's note lines that name `path`
NotesOf(path) == {i \in 1..Len(logfile) : logfile[i].kind = "note" /\ logfile[i].path = path}

\* C11 (as claimed): the answer to a request does not depend on whether the
\* database and the logfile are writable: two served requests that are equal
\* and whose handlers met the same outcomes of every call that is not a write
\* to the logfile have the same status and body, on every endpoint.
C11_LogStateNeverReachesPeer ==
    \A p, q \in Procs :
        Done(p) /\ Done(q) /\ req[p] = req[q] /\ NonLogOutcomes(p) = NonLogOutcomes(q)
            => resp[p] = resp[q]

\* C12 (as claimed): once an upload has been served, the file it stored in the
\* quarantine directory is named by a note line of the logfile.
C12_EveryStoredFileHasNote ==
    \A f \in quarantine : Done(f.rid) /\ f.complete => NotesOf(f.path) # {}

----------------------------------------------------------------------------
(* Claims about which sink receives an event *)

----------------------------------------------------------------------------
(* Claims about the login form *)

IsLoginPost(p) == req[p].path = "/admin/login" /\ req[p].method = "POST"

LoginFailed(username) == Resp(401, <<"<p>Login failed for ", Fmt(username), "</p>">>)

\* the rows and lines of the request of thread p that record a POST of /admin/login
LoginRecords(p) ==
    {db[i] : i \in {j \in DbRows(p) : db[j].path = "/admin/login" /\ db[j].method = "POST"}}
        \cup {LineFields(logfile[i]) :
                i \in {j \in LogEvents(p) : logfile[j].path = "/admin/login"
                                             /\ logfile[j].method = "POST"}}

----------------------------------------------------------------------------
(* Claims about the capture hook *)

\* the thread serves a request that came through the hook
Served(p) == req[p] # NoRequest

\* C15 (as claimed): whatever read of a request attribute fails in the hook,
\* the event is still built and handed to the sqlite append: once the hook
\* has ended for a request, save_event has been called with the request's
\* method and path and has started its sqlite append.
C15_EveryRequestHandedToPrimary ==
    \A p \in Procs :
        Served(p) /\ AfterCapture(p) =>
            /\ primaryAttempts[p] = 1
            /\ args[p].method = req[p].method /\ args[p].path = req[p].path

\* the note lines of the logfile written for the request of thread p
LogNotes(p) == {i \in 1..Len(logfile) : logfile[i].kind = "note" /\ logfile[i].rid = p}

\* the handler of the request of thread p has started, or left a trace
HandlerActed(p) ==
    \/ pc[p] \in {"handler", "save", "note", "note_write", "done"}
    \/ resp[p] # NoResp
    \/ upath[p] # <<>> \/ hout[p] # <<>>
    \/ \E f \in quarantine : f.rid = p
    \/ LogNotes(p) # {}

\* C16: for each request the capture has ended before its handler does
\* anything: whenever the handler has started, answered, written to the
\* quarantine directory or appended a note, log_request has returned, the
\* row or line it recorded is already in its sink, and the request's event
\* line precedes its note line in the logfile.
C16_CaptureBeforeHandler ==
    \A p \in Procs :
        Served(p) /\ HandlerActed(p) =>
            /\ pc[p] \notin {"idle", "hook", "insert", "commit", "fallback", "fallback_write"}
            /\ cout[p] # "none"
            /\ cout[p] = "stored" => DbRows(p) # {}
            /\ cout[p] = "logged" => LogEvents(p) # {}
            /\ \A i \in LogEvents(p) : \A j \in LogNotes(p) : i < j

\* an upload whose event went to the logfile and whose file and note were
\* written afterwards
C16_Witness ==
    \E p \in Procs :
        /\ Done(p) /\ IsUpload(p) /\ cout[p] = "logged" /\ resp[p] = Resp(200, <<"OK">>)
        /\ \E f \in quarantine : f.rid = p
        /\ \E i \in LogEvents(p) : \E j \in LogNotes(p) : i < j

----------------------------------------------------------------------------
(* Claims about concurrent requests *)

\* thread p holds the logfile open, between its open() and its write
HoldsLogOpen(p) == pc[p] \in {"fallback_write", "note_write"}

Stored(p) == "save_ok" \in {hout[p][i] : i \in 1..Len(hout[p])}

\* C18 (as claimed): two distinct uploads whose payloads were stored never
\* have the same stored path, so neither file.save wrote over the other's
\* file.
C18_DistinctUploadsDistinctPaths ==
    \A p, q \in Procs : p # q /\ Stored(p) /\ Stored(q) => upath[p] # upath[q]

\* C19 (as claimed): whenever save_event has returned after opening a
\* connection, that connection has been closed (a failed connect opened none).
C19_ConnectionClosedOnReturn ==
    \A p \in Procs :
        AfterCapture(p) /\ primaryAttempts[p] = 1 => conn[p] \in {"closed", "none"}

\* C20 (as claimed): of any two rows of the events table, the one with the
\* smaller id has the capture timestamp that is not the later one.
C20_IdOrderIsCaptureOrder ==
    \A i, j \in 1..Len(db) : db[i].id < db[j].id => db[i].ts[1] <= db[j].ts[1]

====
